---- MODULE Spec2Model ----
(***************************************************************************)
(* StorybookReporter (tdd-guard-storybook): in-memory accumulation of      *)
(* story results keyed by module id, and the terminal write of the         *)
(* canonical test-run output to the storage.                               *)
(***************************************************************************)
EXTENDS Integers, Sequences, FiniteSets, TLC

(* ------------------------------ bounds -------------------------------- *)

\* Largest number of onStoryResult calls in one run.
MaxResults == 3

\* Largest number of storage.saveTest calls in one run.
MaxCompletes == 2

\* Largest number of messages a query yields.
MaxMessages == 3

\* Largest number of content blocks of an API response.
MaxBlocks == 3

(* --------------------------- JavaScript values ------------------------- *)

\* The value `undefined` of a string-typed property or argument.
Undefined == "<undefined>"

\* String(err) of a plain object.
ObjectString == "[object Object]"

\* An errors argument: omitted, or an array of raw error values.
NoErrors == [given |-> FALSE]
ErrorsOf(list) == [given |-> TRUE, list |-> list]

\* Raw error values handed to onStoryResult (unknown[]).
AssertionError ==
  [kind |-> "object", message |-> "expected button to have aria-label",
   stack |-> "Error: expected button to have aria-label at test.ts:7:19"]
BareObject == [kind |-> "object", message |-> Undefined, stack |-> Undefined]
NullError == [kind |-> "null"]
UndefinedError == [kind |-> "undefined"]
StringPrimitive == [kind |-> "string", value |-> "boom"]
TimeoutError ==
  [kind |-> "object", message |-> "Timed out waiting for element",
   stack |-> "Error: Timed out waiting for element at test.ts:9:3"]
MessageOnly == [kind |-> "object", message |-> "expected 5 to be 6"]
StructuredError ==
  [kind |-> "object", message |-> "expected 5 to be 6",
   stack |-> "Error: expected 5 to be 6 at Calculator.stories.js:12:26",
   expected |-> "6", actual |-> "5"]
\* A property value that is not a string: the number 42.
NumberValue == "<number 42>"
NumericMessage == [kind |-> "object", message |-> NumberValue]

\* typeof value === 'string'
IsString(value) == value \notin {Undefined, NumberValue}

\* The story contexts the test-runner delivers (id, title, name).
Primary == [id |-> "button--primary", title |-> "Button", name |-> "Primary"]
Secondary == [id |-> "button--primary", title |-> "Button", name |-> "Secondary"]
CardDefault == [id |-> "card--default", title |-> "Card", name |-> "Default"]
Contexts == {Primary, Secondary, CardDefault}

\* The arguments of one onStoryResult invocation.
Call(context, status, errors) ==
  [context |-> context, status |-> status, errors |-> errors]

\* The onStoryResult invocations enumerated: a context, a status ('passed',
\* 'failed', 'skipped' or omitted) and an errors argument (omitted, empty, an
\* error object, an object without message, null).
Invocations ==
  { Call(Primary, Undefined, NoErrors),
    Call(Secondary, "passed", ErrorsOf(<<>>)),
    Call(Primary, "failed", ErrorsOf(<<AssertionError>>)),
    Call(CardDefault, "skipped", NoErrors),
    Call(CardDefault, "failed", ErrorsOf(<<BareObject>>)),
    Call(Secondary, "failed", ErrorsOf(<<NullError>>)),
    Call(CardDefault, "passed", ErrorsOf(<<AssertionError>>)) }

\* Invocations that differ in the shape of their errors: two errors, an error
\* without stack, one with expected/actual, a non-string message, a primitive,
\* undefined, and a call without errors.
ErrorInvocations ==
  { Call(Primary, "failed", ErrorsOf(<<AssertionError, TimeoutError>>)),
    Call(Secondary, "failed", ErrorsOf(<<MessageOnly>>)),
    Call(CardDefault, "failed", ErrorsOf(<<StructuredError>>)),
    Call(Primary, "failed", ErrorsOf(<<NumericMessage>>)),
    Call(CardDefault, "failed", ErrorsOf(<<StringPrimitive>>)),
    Call(Secondary, "failed", ErrorsOf(<<UndefinedError>>)),
    Call(Secondary, Undefined, NoErrors) }

\* A second story of the Button story file, with the id Storybook gives it.
ButtonSecondary == [id |-> "button--secondary", title |-> "Button", name |-> "Secondary"]

\* The story file a context comes from: one file per title.
StoryFileOf(context) == "src/" \o context.title \o ".stories.tsx"

\* Invocations for stories of two story files, two of them from the same file.
StoryInvocations ==
  { Call(Primary, Undefined, NoErrors),
    Call(ButtonSecondary, "passed", NoErrors),
    Call(ButtonSecondary, "failed", ErrorsOf(<<AssertionError>>)),
    Call(CardDefault, "skipped", NoErrors) }

\* Contexts that carry a status and errors of their own besides id, title, name.
PrimaryFailedInside ==
  [id |-> "button--primary", title |-> "Button", name |-> "Primary",
   status |-> "failed", errors |-> <<AssertionError>>]
PrimarySkippedInside ==
  [id |-> "button--primary", title |-> "Button", name |-> "Primary", status |-> "skipped"]
CardPassedInside ==
  [id |-> "card--default", title |-> "Card", name |-> "Default", status |-> "passed"]

\* Invocations whose contexts differ only in what they carry besides id,
\* title and name.
ContextInvocations ==
  { Call(Primary, Undefined, NoErrors),
    Call(PrimaryFailedInside, Undefined, NoErrors),
    Call(PrimaryFailedInside, "passed", NoErrors),
    Call(PrimarySkippedInside, "failed", ErrorsOf(<<AssertionError>>)),
    Call(CardDefault, "skipped", NoErrors),
    Call(CardPassedInside, "skipped", NoErrors) }

\* How a story run by the test-runner ends.
StoryOutcomes == {"passed", "failed", "crashed"}

(* ------------------------------- state --------------------------------- *)

VARIABLES
  collectedTests,  \* Map<string, StoryTest[]>: entries <<moduleId, tests>> in insertion order
  calls,           \* history of the onStoryResult invocations and their outcome
  completeCalls,   \* number of onComplete invocations so far
  saveCalls,       \* history of the contents handed to storage.saveTest
  pending,         \* indices of saveCalls whose write is still in flight
  rejected,        \* indices of saveCalls whose write failed
  store,           \* what the storage holds: <<>> or <<content>>
  exited,          \* the process 'exit' event has fired
  promises,        \* the promise of each onComplete invocation: pending, fulfilled, rejected
  visited,         \* history of the stories the test-runner has run
  queryResult,     \* the messages the query of ClaudeCodeSdk.ask yields, in order
  cursor,          \* number of messages the for-await loop of ask has taken
  response,        \* the response of client.messages.create of AnthropicApi.ask
  answer,          \* the promise returned by ask: pending, fulfilled or rejected
  storageOrRoot,   \* the argument the reporter was constructed with
  storage,         \* the readonly storage field of the reporter
  config,          \* the argument of getModelClient: a Config or nothing
  freshConfig,     \* the Config that `new Config()` yields in this environment
  modelClient      \* what getModelClient returned: <<>> or <<client>>

\* The fields of the reporter and the histories kept about it.
reporterVars ==
  <<collectedTests, calls, completeCalls, saveCalls, pending, rejected, store, exited,
    promises, visited>>

\* The state of one ask call on a model client.
clientVars == <<queryResult, cursor, response, answer>>

\* The constructor argument of the reporter and the storage made from it.
constructionVars == <<storageOrRoot, storage>>

\* The state of one getModelClient call on the provider.
providerVars == <<config, freshConfig, modelClient>>

vars ==
  <<collectedTests, calls, completeCalls, saveCalls, pending, rejected, store, exited,
    promises, visited, queryResult, cursor, response, answer, storageOrRoot, storage,
    config, freshConfig, modelClient>>

(* ------------------------------ Map<K, V> ------------------------------ *)

\* Map.prototype.has
MapHas(map, key) == \E i \in 1..Len(map) : map[i][1] = key

\* Index of the entry of key (the key is present).
MapIndex(map, key) == CHOOSE i \in 1..Len(map) : map[i][1] = key

\* Map.prototype.get
MapGet(map, key) == map[MapIndex(map, key)][2]

\* Map.prototype.set: a new key is appended, an old key keeps its position.
MapSet(map, key, value) ==
  IF MapHas(map, key)
    THEN [map EXCEPT ![MapIndex(map, key)] = <<key, value>>]
    ELSE Append(map, <<key, value>>)

(* ------------------------- the test-run output ------------------------- *)

RECURSIVE FlatMapTests(_)
\* testModules.flatMap((m) => m.tests)
FlatMapTests(testModules) ==
  IF testModules = <<>> THEN <<>>
  ELSE Head(testModules).tests \o FlatMapTests(Tail(testModules))

\* Mutant: only passed tests keep the run from failing.
determineReason_SkippedFails(testModules) ==
  LET allTests == FlatMapTests(testModules)
  IN IF Len(allTests) = 0 THEN Undefined
     ELSE IF \E i \in 1..Len(allTests) : allTests[i].state # "passed"
            THEN "failed" ELSE "passed"

\* Mutant: no check for the empty run.
determineReason_EmptyPassed(testModules) ==
  LET allTests == FlatMapTests(testModules)
  IN IF \E i \in 1..Len(allTests) : allTests[i].state = "failed"
       THEN "failed" ELSE "passed"

\* Mutant: a run in which no test passed or failed counts as interrupted.
determineReason_AllSkippedInterrupted(testModules) ==
  LET allTests == FlatMapTests(testModules)
  IN IF Len(allTests) = 0 THEN Undefined
     ELSE IF \E i \in 1..Len(allTests) : allTests[i].state = "failed" THEN "failed"
     ELSE IF \E i \in 1..Len(allTests) : allTests[i].state = "passed" THEN "passed"
     ELSE "interrupted"

\* determineReason
determineReason(testModules) ==
  LET allTests == FlatMapTests(testModules)
  IN IF Len(allTests) = 0 THEN Undefined
     ELSE IF \E i \in 1..Len(allTests) : allTests[i].state = "failed"
            THEN "failed" ELSE "passed"

\* Array.from(collectedTests.entries()).map(([moduleId, tests]) => ({moduleId, tests}))
TestModulesOf(map) ==
  [i \in 1..Len(map) |-> [moduleId |-> map[i][1], tests |-> map[i][2]]]

\* The TestRunOutput object of onComplete.
OutputOf(map) ==
  LET testModules == TestModulesOf(map)
  IN [testModules |-> testModules,
      unhandledErrors |-> <<>>,
      reason |-> determineReason(testModules)]

\* JSON of a StoryError: a property whose value is undefined is left out.
JsonError(e) ==
  IF e.stack = Undefined THEN [message |-> e.message] ELSE e

\* JSON of a StoryTest.
JsonTest(t) ==
  IF "errors" \in DOMAIN t
    THEN [name |-> t.name, fullName |-> t.fullName, state |-> t.state,
          errors |-> [i \in 1..Len(t.errors) |-> JsonError(t.errors[i])]]
    ELSE t

\* JSON of a StoryModule.
JsonModule(m) ==
  [moduleId |-> m.moduleId, tests |-> [i \in 1..Len(m.tests) |-> JsonTest(m.tests[i])]]

\* JSON.stringify(output): the document the string denotes.
JsonStringify(output) ==
  LET modules == [i \in 1..Len(output.testModules) |-> JsonModule(output.testModules[i])]
  IN IF output.reason = Undefined
       THEN [testModules |-> modules, unhandledErrors |-> output.unhandledErrors]
       ELSE [testModules |-> modules, unhandledErrors |-> output.unhandledErrors,
             reason |-> output.reason]

(* ---------------------------- onStoryResult ---------------------------- *)

\* String(err)
StringOf(err) ==
  CASE err.kind = "object" -> ObjectString
    [] err.kind = "string" -> err.value
    [] err.kind = "null" -> "null"
    [] err.kind = "undefined" -> "undefined"

\* Reading a property of null or undefined throws a TypeError.
PropertyReadThrows(err) == err.kind \in {"null", "undefined"}

\* errorObj.message / errorObj.stack
PropertyOf(err, key) ==
  IF err.kind = "object" /\ key \in DOMAIN err THEN err[key] ELSE Undefined

\* Mutant: the message property is copied as it is.
MapError_KeepsRawMessage(err) ==
  [message |-> PropertyOf(err, "message"), stack |-> PropertyOf(err, "stack")]

\* Mutant: expected and actual are always filled in.
MapError_FabricatesExpected(err) ==
  LET message == PropertyOf(err, "message")
  IN [message |-> IF IsString(message) THEN message ELSE StringOf(err),
      stack |-> PropertyOf(err, "stack"),
      expected |-> "", actual |-> ""]

\* The callback of errors.map: one raw error to one StoryError.
MapError(err) ==
  LET message == PropertyOf(err, "message")
  IN [message |-> IF IsString(message) THEN message ELSE StringOf(err),
      stack |-> PropertyOf(err, "stack")]

\* Whether the call throws before it touches the accumulation.
onStoryResultThrows(errors) ==
  /\ errors.given
  /\ \E i \in 1..Len(errors.list) : PropertyReadThrows(errors.list[i])

\* Mutant: an omitted status is recorded as skipped.
StatusOrDefault_OmittedIsSkipped(status) ==
  IF status = Undefined THEN "skipped" ELSE status

\* The default value of the status parameter.
StatusOrDefault(status) == IF status = Undefined THEN "passed" ELSE status

\* Mutant: only the first error is kept.
StoryTestOf_FirstErrorOnly(context, status, errors) ==
  LET name == context.name
      fullName == context.title \o " > " \o context.name
      state == StatusOrDefault(status)
  IN IF errors.given /\ Len(errors.list) > 0
       THEN [name |-> name, fullName |-> fullName, state |-> state,
             errors |-> <<MapError(errors.list[1])>>]
       ELSE [name |-> name, fullName |-> fullName, state |-> state]

\* Mutant: the full name is qualified by the story id, not by the title.
StoryTestOf_FullNameFromId(context, status, errors) ==
  LET name == context.name
      fullName == context.id \o " > " \o context.name
      state == StatusOrDefault(status)
  IN IF errors.given /\ Len(errors.list) > 0
       THEN [name |-> name, fullName |-> fullName, state |-> state,
             errors |-> [i \in 1..Len(errors.list) |-> MapError(errors.list[i])]]
       ELSE [name |-> name, fullName |-> fullName, state |-> state]

\* Mutant: a status carried by the context overrides the status argument.
StoryTestOf_StateFromContext(context, status, errors) ==
  LET name == context.name
      fullName == context.title \o " > " \o context.name
      state == IF "status" \in DOMAIN context THEN context.status
               ELSE StatusOrDefault(status)
  IN IF errors.given /\ Len(errors.list) > 0
       THEN [name |-> name, fullName |-> fullName, state |-> state,
             errors |-> [i \in 1..Len(errors.list) |-> MapError(errors.list[i])]]
       ELSE [name |-> name, fullName |-> fullName, state |-> state]

\* The StoryTest built from the arguments.
StoryTestOf(context, status, errors) ==
  LET name == context.name
      fullName == context.title \o " > " \o context.name
      state == StatusOrDefault(status)
  IN IF errors.given /\ Len(errors.list) > 0
       THEN [name |-> name, fullName |-> fullName, state |-> state,
             errors |-> [i \in 1..Len(errors.list) |-> MapError(errors.list[i])]]
       ELSE [name |-> name, fullName |-> fullName, state |-> state]

\* Mutant: a module entry is created for every result.
Accumulate_AlwaysNewModule(map, moduleId, test) ==
  Append(map, <<moduleId, <<test>>>>)

\* Mutant: unshift instead of push.
Accumulate_Unshift(map, moduleId, test) ==
  LET created == IF ~MapHas(map, moduleId) THEN MapSet(map, moduleId, <<>>) ELSE map
  IN MapSet(created, moduleId, <<test>> \o MapGet(created, moduleId))

\* Mutant: the tests of the module are replaced, not appended to (lost update).
Accumulate_Overwrites(map, moduleId, test) ==
  MapSet(map, moduleId, <<test>>)

\* has / set / get(...).push on the accumulation map.
Accumulate(map, moduleId, test) ==
  LET created == IF ~MapHas(map, moduleId) THEN MapSet(map, moduleId, <<>>) ELSE map
  IN MapSet(created, moduleId, Append(MapGet(created, moduleId), test))

\* Mutant: every story result is written to the storage at once.
onStoryResult_WritesEachStory(context, status, errors) ==
  /\ ~exited
  /\ Len(calls) < MaxResults
  /\ ~onStoryResultThrows(errors)
  /\ calls' = Append(calls, [context |-> context, status |-> status,
                             errors |-> errors, threw |-> FALSE])
  /\ collectedTests' =
       Accumulate(collectedTests, context.id, StoryTestOf(context, status, errors))
  /\ saveCalls' = Append(saveCalls, [content |-> [testModules |-> <<>>, unhandledErrors |-> <<>>],
                                     seen |-> Len(calls) + 1, by |-> "story"])
  /\ pending' = pending \cup {Len(saveCalls) + 1}
  /\ UNCHANGED <<completeCalls, rejected, store, exited, promises>>

\* Mutant: the module entry is created before the errors are mapped.
onStoryResult_CreatesModuleFirst(context, status, errors) ==
  /\ ~exited
  /\ Len(calls) < MaxResults
  /\ IF onStoryResultThrows(errors)
       THEN /\ calls' = Append(calls, [context |-> context, status |-> status,
                                       errors |-> errors, threw |-> TRUE])
            /\ collectedTests' =
                 IF MapHas(collectedTests, context.id) THEN collectedTests
                 ELSE MapSet(collectedTests, context.id, <<>>)
       ELSE /\ calls' = Append(calls, [context |-> context, status |-> status,
                                       errors |-> errors, threw |-> FALSE])
            /\ collectedTests' =
                 Accumulate(collectedTests, context.id, StoryTestOf(context, status, errors))
  /\ UNCHANGED <<completeCalls, saveCalls, pending, rejected, store, exited, promises>>

\* Mutant: the storage is handed the live output, not a serialised snapshot,
\* so a write still in flight sees the results recorded after it was issued.
onStoryResult_LiveReference(context, status, errors) ==
  LET threw == onStoryResultThrows(errors)
      after == IF threw THEN collectedTests
               ELSE Accumulate(collectedTests, context.id,
                               StoryTestOf(context, status, errors))
  IN /\ ~exited
     /\ Len(calls) < MaxResults
     /\ calls' = Append(calls, [context |-> context, status |-> status,
                                errors |-> errors, threw |-> threw])
     /\ collectedTests' = after
     /\ saveCalls' =
          [k \in DOMAIN saveCalls |->
             IF k \in pending
               THEN [saveCalls[k] EXCEPT !.content = JsonStringify(OutputOf(after))]
               ELSE saveCalls[k]]
     /\ UNCHANGED <<completeCalls, pending, rejected, store, exited, promises>>

onStoryResult(context, status, errors) ==
  /\ ~exited
  /\ Len(calls) < MaxResults
  /\ IF onStoryResultThrows(errors)
       THEN /\ calls' = Append(calls, [context |-> context, status |-> status,
                                       errors |-> errors, threw |-> TRUE])
            /\ UNCHANGED collectedTests
       ELSE /\ calls' = Append(calls, [context |-> context, status |-> status,
                                       errors |-> errors, threw |-> FALSE])
            /\ collectedTests' =
                 Accumulate(collectedTests, context.id, StoryTestOf(context, status, errors))
  /\ UNCHANGED <<completeCalls, saveCalls, pending, rejected, store, exited, promises>>

(* ------------------------------ onComplete ----------------------------- *)

\* storage.saveTest(content): the call is issued, the write is in flight.
saveTest(content, caller) ==
  /\ saveCalls' = Append(saveCalls, [content |-> content, seen |-> Len(calls),
                                      by |-> caller])
  /\ pending' = pending \cup {Len(saveCalls) + 1}

\* Mutant: the accumulation is cleared once the output is built.
onComplete_ClearsAccumulation(caller) ==
  /\ completeCalls' = completeCalls + 1
  /\ promises' = Append(promises, "pending")
  /\ saveTest(JsonStringify(OutputOf(collectedTests)), caller)
  /\ collectedTests' = <<>>

\* Mutant: a repeated onComplete lists the modules in reverse order.
onComplete_ReversesOnRepeat(caller) ==
  LET reversed == [i \in 1..Len(collectedTests) |->
                     collectedTests[Len(collectedTests) + 1 - i]]
  IN /\ completeCalls' = completeCalls + 1
     /\ promises' = Append(promises, "pending")
     /\ saveTest(JsonStringify(OutputOf(IF completeCalls > 0 THEN reversed
                                         ELSE collectedTests)), caller)
     /\ UNCHANGED collectedTests

\* onComplete, up to its await; caller tells who invoked it.
onComplete(caller) ==
  /\ completeCalls' = completeCalls + 1
  /\ promises' = Append(promises, "pending")
  /\ saveTest(JsonStringify(OutputOf(collectedTests)), caller)
  /\ UNCHANGED collectedTests

\* The run ends normally: the caller invokes reporter.onComplete().
Completion ==
  /\ ~exited
  /\ completeCalls < MaxCompletes
  /\ onComplete("complete")
  /\ UNCHANGED <<calls, rejected, store, exited, visited>>
  /\ UNCHANGED <<clientVars, constructionVars, providerVars>>

\* process.on('exit', () => { reporter.onComplete() })
ProcessExit ==
  /\ ~exited
  /\ completeCalls < MaxCompletes
  /\ exited' = TRUE
  /\ onComplete("exit")
  /\ UNCHANGED <<calls, rejected, store, visited>>
  /\ UNCHANGED <<clientVars, constructionVars, providerVars>>

\* Mutant: the failure of the write is caught and dropped.
onCompleteResumes_SwallowsFailure(k, failed) ==
  promises' = IF k \in DOMAIN promises
                THEN [promises EXCEPT ![k] = "fulfilled"]
                ELSE promises

\* onComplete after its await: with no try/catch around it, the outcome of
\* saveTest is the outcome of the promise of the k-th onComplete.
onCompleteResumes(k, failed) ==
  promises' = IF k \in DOMAIN promises
                THEN [promises EXCEPT ![k] = IF failed THEN "rejected" ELSE "fulfilled"]
                ELSE promises

(* ------------------------------- storage ------------------------------- *)

\* The storage settles the writes one at a time, in the order of the calls.
OldestPending(k) == k \in pending /\ \A j \in pending : k <= j

\* A write in flight succeeds: the storage holds its content.
SaveTestResolves(k) ==
  /\ OldestPending(k)
  /\ pending' = pending \ {k}
  /\ store' = <<saveCalls[k].content>>
  /\ onCompleteResumes(k, FALSE)
  /\ UNCHANGED <<collectedTests, calls, completeCalls, saveCalls, rejected, exited, visited>>
  /\ UNCHANGED <<clientVars, constructionVars, providerVars>>

\* A write in flight fails: the promise of saveTest rejects.
SaveTestRejects(k) ==
  /\ OldestPending(k)
  /\ pending' = pending \ {k}
  /\ rejected' = rejected \cup {k}
  /\ onCompleteResumes(k, TRUE)
  /\ UNCHANGED <<collectedTests, calls, completeCalls, saveCalls, store, exited, visited>>
  /\ UNCHANGED <<clientVars, constructionVars, providerVars>>

(* ----------------------------- constructor ---------------------------- *)

\* File paths: absolute or relative, and the segments between the separators.
\* The empty string is the relative path without segments.
PathOf(absolute, segments) == [absolute |-> absolute, segments |-> segments]
EmptyString == PathOf(FALSE, <<>>)
ProjectRoot == PathOf(TRUE, <<"some", "project", "root">>)
RootDirectory == PathOf(TRUE, <<>>)
RelativeRoot == PathOf(FALSE, <<"packages", "app">>)

\* DEFAULT_DATA_DIR.split('/')
DefaultDataDir == <<".claude", "tdd-guard", "data">>

\* join(path, ...segments) of node:path
Join(path, segments) == [path EXCEPT !.segments = @ \o segments]

\* The values a constructor argument can have: undefined, a string, a Storage.
NoArgument == [kind |-> "undefined"]
StringArgument(path) == [kind |-> "string", value |-> path]
StorageArgument(instance) == [kind |-> "storage", instance |-> instance]

\* The MemoryStorage the tests construct the reporter with, and another one.
MemoryStorage == StorageArgument("MemoryStorage#1")
OtherMemoryStorage == StorageArgument("MemoryStorage#2")

ConstructorArguments ==
  {NoArgument, MemoryStorage, OtherMemoryStorage, StringArgument(EmptyString),
   StringArgument(ProjectRoot), StringArgument(RootDirectory),
   StringArgument(RelativeRoot)}

\* !storageOrRoot: undefined and the empty string are falsy.
IsFalsyArgument(argument) ==
  \/ argument.kind = "undefined"
  \/ argument.kind = "string" /\ argument.value = EmptyString

\* new Config({ projectRoot }): its data directory lies under the root.
ConfigOfRoot(projectRoot) ==
  [projectRoot |-> projectRoot, dataDir |-> Join(projectRoot, DefaultDataDir)]

\* new FileStorage() and new FileStorage(config)
DefaultFileStorage == [kind |-> "FileStorage"]
FileStorageOf(configuration) == [kind |-> "FileStorage", config |-> configuration]

\* initializeStorage
initializeStorage(argument) ==
  IF IsFalsyArgument(argument) THEN DefaultFileStorage
  ELSE IF argument.kind = "string" THEN FileStorageOf(ConfigOfRoot(argument.value))
  ELSE argument

\* constructor(storageOrRoot)
Constructed(argument) ==
  /\ storageOrRoot = argument
  /\ storage = initializeStorage(argument)

(* ------------------------- ModelClientProvider ------------------------- *)

\* The values of Config.validationClient: the three clients, and a value that
\* is none of them (the legacy model type).
ValidationClients == {"sdk", "api", "cli", "claude_cli"}

ModelVersions == {"claude-sonnet-4-0", "claude-opus-4-1"}

\* The Config objects, by the properties the clients read.
Configs ==
  [validationClient : ValidationClients, modelVersion : ModelVersions, instance : {"a", "b"}]

\* getModelClient() without argument.
NoConfig == [given |-> FALSE]
GivenConfig(c) == [given |-> TRUE, value |-> c]

\* config ?? new Config()
ActualConfig == IF config.given THEN config.value ELSE freshConfig

\* new ClaudeAgentSdk(c), new AnthropicApi(c), new ClaudeCli(c)
NewClient(class, c) == [class |-> class, config |-> c]

\* Mutant: the cases 'api' and 'cli' are swapped.
ClientFor_ApiAndCliSwapped(actualConfig) ==
  CASE actualConfig.validationClient = "sdk" -> NewClient("ClaudeAgentSdk", actualConfig)
    [] actualConfig.validationClient = "api" -> NewClient("ClaudeCli", actualConfig)
    [] actualConfig.validationClient = "cli" -> NewClient("AnthropicApi", actualConfig)
    [] OTHER -> NewClient("ClaudeCli", actualConfig)

\* The switch of getModelClient.
ClientFor(actualConfig) ==
  CASE actualConfig.validationClient = "sdk" -> NewClient("ClaudeAgentSdk", actualConfig)
    [] actualConfig.validationClient = "api" -> NewClient("AnthropicApi", actualConfig)
    [] actualConfig.validationClient = "cli" -> NewClient("ClaudeCli", actualConfig)
    [] OTHER -> NewClient("ClaudeCli", actualConfig)

\* getModelClient(config)
getModelClient ==
  /\ modelClient = <<>>
  /\ modelClient' = <<ClientFor(ActualConfig)>>
  /\ UNCHANGED <<config, freshConfig>>
  /\ UNCHANGED <<reporterVars, clientVars, constructionVars>>

\* No getModelClient call is under way.
ProviderIdle ==
  /\ config = NoConfig
  /\ freshConfig = [validationClient |-> "sdk", modelVersion |-> "claude-sonnet-4-0",
                    instance |-> "a"]
  /\ modelClient = <<>>

(* ---------------------------- specification ---------------------------- *)

\* A reporter just constructed: nothing collected, nothing written.
InitReporter ==
  /\ collectedTests = <<>>
  /\ calls = <<>>
  /\ completeCalls = 0
  /\ saveCalls = <<>>
  /\ pending = {}
  /\ rejected = {}
  /\ store = <<>>
  /\ exited = FALSE
  /\ promises = <<>>
  /\ visited = <<>>

\* No ask call on a model client is under way.
ClientsIdle ==
  /\ queryResult = <<>>
  /\ cursor = 0
  /\ response = [content |-> <<>>]
  /\ answer = [state |-> "pending"]

Init == InitReporter /\ Constructed(MemoryStorage) /\ ClientsIdle /\ ProviderIdle

\* A caller invokes reporter.onStoryResult(context, status, errors).
StoryResult(c) ==
  /\ onStoryResult(c.context, c.status, c.errors)
  /\ UNCHANGED visited
  /\ UNCHANGED <<clientVars, constructionVars, providerVars>>

Next ==
  \/ \E c \in Invocations : StoryResult(c)
  \/ Completion
  \/ ProcessExit
  \/ \E k \in pending : SaveTestResolves(k)
  \/ \E k \in pending : SaveTestRejects(k)

Spec == Init /\ [][Next]_vars

\* The reporter driven with the invocations that differ in their errors.
NextErrors ==
  \/ \E c \in ErrorInvocations : StoryResult(c)
  \/ Completion
  \/ \E k \in pending : SaveTestResolves(k)

SpecErrors == Init /\ [][NextErrors]_vars

\* The reporter driven with the results of stories that have their own ids.
NextStories ==
  \/ \E c \in StoryInvocations : StoryResult(c)
  \/ Completion
  \/ \E k \in pending : SaveTestResolves(k)

SpecStories == Init /\ [][NextStories]_vars

\* module.exports = { async postVisit(page, context) { await reporter.onStoryResult(context) } }
postVisit(context) == onStoryResult(context, Undefined, NoErrors)

\* The test-runner runs one story, with or without a play function (a story
\* without one is rendered only). The postVisit hook runs after a story that
\* passed; after a story that failed or crashed it may or may not be reached.
StoryVisit(context, play, outcome, hookRuns) ==
  /\ outcome = "passed" => hookRuns
  /\ Len(visited) < MaxResults
  /\ ~exited
  /\ visited' = Append(visited, [context |-> context, play |-> play,
                                  outcome |-> outcome, hook |-> hookRuns])
  /\ IF hookRuns
       THEN postVisit(context)
       ELSE UNCHANGED <<collectedTests, calls, completeCalls, saveCalls, pending,
                        rejected, store, exited, promises>>
  /\ UNCHANGED <<clientVars, constructionVars, providerVars>>

\* The reporter wired to the test-runner as the README configures it.
NextRunner ==
  \/ \E context \in Contexts, play \in BOOLEAN, outcome \in StoryOutcomes,
          hookRuns \in BOOLEAN :
       StoryVisit(context, play, outcome, hookRuns)
  \/ ProcessExit
  \/ \E k \in pending : SaveTestResolves(k)
  \/ \E k \in pending : SaveTestRejects(k)

SpecRunner == Init /\ [][NextRunner]_vars

\* The reporter driven with contexts that carry more than id, title, name.
NextContexts ==
  \/ \E c \in ContextInvocations : StoryResult(c)
  \/ Completion
  \/ \E k \in pending : SaveTestResolves(k)

SpecContexts == Init /\ [][NextContexts]_vars

\* The reporter constructed with any argument, then driven with story results.
InitConstruct ==
  /\ InitReporter
  /\ \E argument \in ConstructorArguments : Constructed(argument)
  /\ ClientsIdle
  /\ ProviderIdle

SpecConstruct == InitConstruct /\ [][NextStories]_vars

\* A provider asked for a model client, with or without a config.
InitProvider ==
  /\ InitReporter
  /\ Constructed(MemoryStorage)
  /\ ClientsIdle
  /\ config \in {NoConfig} \cup {GivenConfig(c) : c \in Configs}
  /\ freshConfig \in Configs
  /\ modelClient = <<>>

NextProvider == getModelClient

SpecProvider == InitProvider /\ [][NextProvider]_vars

(* ---------------------------- model clients ---------------------------- *)

\* The settled states of the promise returned by ask.
Pending == [state |-> "pending"]
Fulfilled(value) == [state |-> "fulfilled", value |-> value]
Rejected(message) == [state |-> "rejected", message |-> message]

\* Messages a query yields: messages of other types (the second one carries
\* the fields of a result), successful results, and results of other subtypes.
SystemMessage == [type |-> "system", subtype |-> "init"]
OtherMessage == [type |-> "other", subtype |-> "success", result |-> "default result"]
SuccessResult == [type |-> "result", subtype |-> "success", result |-> "test result"]
DefaultResult == [type |-> "result", subtype |-> "success", result |-> "default result"]
MaxTurnsResult ==
  [type |-> "result", subtype |-> "error_max_turns", result |-> "default result"]
ExecutionErrorResult == [type |-> "result", subtype |-> "error_during_execution"]

Messages ==
  {SystemMessage, OtherMessage, SuccessResult, DefaultResult, MaxTurnsResult,
   ExecutionErrorResult}

\* The message streams a query can yield.
MessageStreams == UNION {[1..n -> Messages] : n \in 0..MaxMessages}

\* Mutant: a result that is no success is skipped like any other message.
onMessage_SkipsErrorResults(message) ==
  IF message.type # "result" THEN Pending
  ELSE IF message.subtype = "success" THEN Fulfilled(message.result)
  ELSE Pending

\* The body of the for-await loop of ClaudeCodeSdk.ask for one message:
\* continue (the promise stays pending), return or throw.
onMessage(message) ==
  IF message.type # "result" THEN Pending
  ELSE IF message.subtype = "success" THEN Fulfilled(message.result)
  ELSE Rejected("Claude Code SDK error: " \o message.subtype)

\* Mutant: the loop goes on after a successful result, the last one wins.
AskTakesMessage_LastResultWins ==
  /\ answer.state \in {"pending", "fulfilled"}
  /\ cursor < Len(queryResult)
  /\ cursor' = cursor + 1
  /\ answer' = IF onMessage(queryResult[cursor + 1]) = Pending THEN answer
                ELSE onMessage(queryResult[cursor + 1])
  /\ UNCHANGED <<queryResult, response>>
  /\ UNCHANGED <<reporterVars, constructionVars, providerVars>>

\* One iteration of the for-await loop: the next message of the query.
AskTakesMessage ==
  /\ answer = Pending
  /\ cursor < Len(queryResult)
  /\ cursor' = cursor + 1
  /\ answer' = onMessage(queryResult[cursor + 1])
  /\ UNCHANGED <<queryResult, response>>
  /\ UNCHANGED <<reporterVars, constructionVars, providerVars>>

\* Mutant: a stream without result resolves with the empty string.
AskStreamEnds_ResolvesEmpty ==
  /\ answer = Pending
  /\ cursor = Len(queryResult)
  /\ answer' = Fulfilled("")
  /\ UNCHANGED <<queryResult, cursor, response>>
  /\ UNCHANGED <<reporterVars, constructionVars, providerVars>>

\* The query is exhausted and the loop ends: the throw after the loop.
AskStreamEnds ==
  /\ answer = Pending
  /\ cursor = Len(queryResult)
  /\ answer' = Rejected("Claude Code SDK error: No result message received")
  /\ UNCHANGED <<queryResult, cursor, response>>
  /\ UNCHANGED <<reporterVars, constructionVars, providerVars>>

\* ClaudeCodeSdk.ask has called queryFn: the query will yield some stream.
InitSdk ==
  /\ InitReporter
  /\ queryResult \in MessageStreams
  /\ cursor = 0
  /\ response = [content |-> <<>>]
  /\ answer = Pending
  /\ Constructed(MemoryStorage)
  /\ ProviderIdle

NextSdk ==
  \/ AskTakesMessage
  \/ AskStreamEnds

SpecSdk == InitSdk /\ [][NextSdk]_vars

\* Content blocks of an API response: text, other text, a block of the mock
\* without type, an image block without text, empty text, undefined text.
TextBlock == [type |-> "text", text |-> "Model response text"]
SecondTextBlock == [type |-> "text", text |-> "More text"]
MockBlock == [text |-> "Model response"]
ImageBlock == [type |-> "image"]
EmptyTextBlock == [type |-> "text", text |-> ""]
UndefinedTextBlock == [type |-> "text", text |-> Undefined]

ContentBlocks ==
  {TextBlock, SecondTextBlock, MockBlock, ImageBlock, EmptyTextBlock, UndefinedTextBlock}

\* The responses client.messages.create can resolve with.
Responses ==
  {[content |-> blocks] : blocks \in UNION {[1..n -> ContentBlocks] : n \in 0..MaxBlocks}}

\* !firstContent.text
IsFalsy(text) == text \in {"", Undefined}

\* Mutant: the text of the last content block is returned.
extractTextFromResponse_LastBlock(resp) ==
  IF Len(resp.content) = 0 THEN Rejected("No content in response")
  ELSE LET lastContent == resp.content[Len(resp.content)]
       IN IF "text" \notin DOMAIN lastContent \/ IsFalsy(lastContent.text)
            THEN Rejected("Response content does not contain text")
            ELSE Fulfilled(lastContent.text)

\* Mutant: the text of the first block is returned even when it is falsy.
extractTextFromResponse_KeepsFalsyText(resp) ==
  IF Len(resp.content) = 0 THEN Rejected("No content in response")
  ELSE LET firstContent == resp.content[1]
       IN IF "text" \notin DOMAIN firstContent
            THEN Rejected("Response content does not contain text")
            ELSE Fulfilled(firstContent.text)

\* extractTextFromResponse: the text returned or the error thrown.
extractTextFromResponse(resp) ==
  IF Len(resp.content) = 0 THEN Rejected("No content in response")
  ELSE LET firstContent == resp.content[1]
       IN IF "text" \notin DOMAIN firstContent \/ IsFalsy(firstContent.text)
            THEN Rejected("Response content does not contain text")
            ELSE Fulfilled(firstContent.text)

\* client.messages.create resolves: AnthropicApi.ask returns the extracted text.
CreateResolves ==
  /\ answer = Pending
  /\ answer' = extractTextFromResponse(response)
  /\ UNCHANGED <<queryResult, cursor, response>>
  /\ UNCHANGED <<reporterVars, constructionVars, providerVars>>

\* client.messages.create rejects: the error passes through ask.
CreateRejects ==
  /\ answer = Pending
  /\ answer' = Rejected("API error")
  /\ UNCHANGED <<queryResult, cursor, response>>
  /\ UNCHANGED <<reporterVars, constructionVars, providerVars>>

\* AnthropicApi.ask has called client.messages.create.
InitApi ==
  /\ InitReporter
  /\ queryResult = <<>>
  /\ cursor = 0
  /\ response \in Responses
  /\ answer = Pending
  /\ Constructed(MemoryStorage)
  /\ ProviderIdle

NextApi ==
  \/ CreateResolves
  \/ CreateRejects

SpecApi == InitApi /\ [][NextApi]_vars

(* ------------------------- properties: helpers ------------------------- *)

Writes == 1..Len(saveCalls)

\* The document handed to storage.saveTest by the k-th call.
Content(k) == saveCalls[k].content

\* The onStoryResult calls that returned normally among the first n.
Recorded(n) == {i \in 1..n : ~calls[i].threw}

\* The results recorded before the k-th write was issued.
RecordedBefore(k) == Recorded(saveCalls[k].seen)

RECURSIVE TestCount(_)
\* Number of tests summed over the modules of a testModules list.
TestCount(testModules) ==
  IF testModules = <<>> THEN 0
  ELSE Len(Head(testModules).tests) + TestCount(Tail(testModules))

\* Whether a document carries the reason key.
HasReason(content) == "reason" \in DOMAIN content

\* Indices of the modules of a document whose moduleId is id.
ModulesWithId(content, id) ==
  {j \in 1..Len(content.testModules) : content.testModules[j].moduleId = id}

\* Number of tests named name in the modules with moduleId id.
Occurrences(content, id, name) ==
  Cardinality(UNION {
    { <<j, t>> : t \in {t \in 1..Len(content.testModules[j].tests) :
                           content.testModules[j].tests[t].name = name} } :
    j \in ModulesWithId(content, id) })

\* Number of recorded results among the first n calls with that id and name.
RecordedOccurrences(n, id, name) ==
  Cardinality({i \in Recorded(n) : calls[i].context.id = id /\ calls[i].context.name = name})

RECURSIVE FirstSeenIds(_, _)
\* Module ids of a sequence of calls, each at its first occurrence.
FirstSeenIds(recorded, seenIds) ==
  IF recorded = <<>> THEN <<>>
  ELSE IF Head(recorded).context.id \in seenIds
         THEN FirstSeenIds(Tail(recorded), seenIds)
         ELSE <<Head(recorded).context.id>>
                \o FirstSeenIds(Tail(recorded), seenIds \cup {Head(recorded).context.id})

\* The calls that returned normally among the first n, in call order.
RecordedSeq(n) == SelectSeq(SubSeq(calls, 1, n), LAMBDA c : ~c.threw)

\* The names recorded for module id among the first n calls, in call order.
RecordedNames(n, id) ==
  LET of == SelectSeq(RecordedSeq(n), LAMBDA c : c.context.id = id)
  IN [i \in 1..Len(of) |-> of[i].context.name]

(* ------------------------------ properties ----------------------------- *)

\* C1: the storage is written only by onComplete: a step that records a story
\* result issues no saveTest and leaves the store alone, every onComplete
\* invocation issues exactly one saveTest (so no invocation means no write and
\* an untouched store, one invocation means one write), and a write is issued
\* after the results recorded before it.
C1_WritesOnlyInComplete ==
  /\ [](/\ Len(saveCalls) = completeCalls
        /\ (completeCalls = 0 => store = <<>> /\ pending = {})
        /\ \A k \in Writes : saveCalls[k].seen <= Len(calls))
  /\ [][calls' # calls => saveCalls' = saveCalls /\ store' = store]_vars
  /\ [][saveCalls' # saveCalls =>
          /\ Len(saveCalls') = Len(saveCalls) + 1
          /\ completeCalls' = completeCalls + 1
          /\ saveCalls'[Len(saveCalls')].seen = Len(calls)]_vars

\* Witness of C1: one onComplete after two recorded results, one write.
W1_OneCompleteOneWrite ==
  /\ completeCalls = 1
  /\ Len(saveCalls) = 1
  /\ saveCalls[1].seen = 2
  /\ Cardinality(Recorded(2)) = 2

\* C2: in every write, the number of tests summed over all testModules equals
\* the number of onStoryResult calls made before it (no call is dropped, merged
\* or duplicated).
X2_TestCountEqualsCalls ==
  \A k \in Writes : TestCount(Content(k).testModules) = saveCalls[k].seen

\* C3: for a non-empty accumulation the persisted reason is failed if at least
\* one recorded result has status failed and passed otherwise; skipped results
\* never change it.
C3_ReasonFailedIffAnyFailed ==
  \A k \in Writes :
    RecordedBefore(k) # {} =>
      /\ HasReason(Content(k))
      /\ Content(k).reason =
           IF \E i \in RecordedBefore(k) : calls[i].status = "failed"
             THEN "failed" ELSE "passed"

\* Witness of C3: a write of a run holding only skipped tests, reason passed.
W3_OnlySkippedYieldsPassed ==
  \E k \in Writes :
    /\ RecordedBefore(k) # {}
    /\ \A i \in RecordedBefore(k) : calls[i].status = "skipped"
    /\ HasReason(Content(k))
    /\ Content(k).reason = "passed"

X6_ExitWritesInterrupted ==
  (saveCalls # <<>> /\ saveCalls[1].by = "exit") =>
    /\ TestCount(Content(1).testModules) = Cardinality(RecordedBefore(1))
    /\ HasReason(Content(1))
    /\ Content(1).reason = "interrupted"

\* C7: two consecutive onComplete calls with no onStoryResult call in between
\* hand the storage identical contents.
C7_CompleteTwiceSameContent ==
  \A k \in Writes :
    (k + 1 \in Writes /\ saveCalls[k].seen = saveCalls[k + 1].seen) =>
      Content(k) = Content(k + 1)

\* Witness of C7: two writes in a row of a non-empty accumulation.
W7_TwoWritesInARow ==
  \E k \in Writes :
    /\ k + 1 \in Writes
    /\ saveCalls[k].seen = saveCalls[k + 1].seen
    /\ Content(k).testModules # <<>>

\* C8: onComplete leaves the accumulation unchanged, and every write holds each
\* result recorded before it exactly once, however many writes preceded it.
C8_CompleteKeepsAccumulation ==
  /\ [][completeCalls' # completeCalls => collectedTests' = collectedTests]_vars
  /\ [](\A k \in Writes :
          /\ TestCount(Content(k).testModules) = Cardinality(RecordedBefore(k))
          /\ \A c \in Contexts :
               Occurrences(Content(k), c.id, c.name)
                 = RecordedOccurrences(saveCalls[k].seen, c.id, c.name))

\* Witness of C8: a second write that holds a result recorded before the first
\* write and one recorded after it.
W8_SecondWriteHoldsAll ==
  /\ Len(saveCalls) = 2
  /\ Cardinality(RecordedBefore(1)) = 1
  /\ Cardinality(RecordedBefore(2)) = 2
  /\ TestCount(Content(2).testModules) = 2

\* C9: the moduleIds of the accumulation and of every write are pairwise
\* distinct, and every result recorded with module identifier m is a test of
\* the one module whose moduleId is m.
C9_OneModulePerIdentifier ==
  /\ \A i, j \in 1..Len(collectedTests) :
       collectedTests[i][1] = collectedTests[j][1] => i = j
  /\ \A k \in Writes :
       /\ \A i, j \in 1..Len(Content(k).testModules) :
            Content(k).testModules[i].moduleId = Content(k).testModules[j].moduleId
              => i = j
       /\ \A r \in RecordedBefore(k) :
            /\ Cardinality(ModulesWithId(Content(k), calls[r].context.id)) = 1
            /\ \A j \in ModulesWithId(Content(k), calls[r].context.id) :
                 Len(Content(k).testModules[j].tests)
                   = Cardinality({q \in RecordedBefore(k) :
                                    calls[q].context.id = calls[r].context.id})

\* Witness of C9: two results of one module identifier in one module of a write.
W9_TwoResultsOneModule ==
  \E k \in Writes :
    \E j \in 1..Len(Content(k).testModules) :
      /\ Len(Content(k).testModules[j].tests) = 2
      /\ Len(Content(k).testModules) = 2

\* C10: in every write, testModules are in the order in which each module's
\* first result was recorded and each module's tests are in the order their
\* results were recorded.
C10_FirstSeenOrder ==
  \A k \in Writes :
    LET c == Content(k)
        n == saveCalls[k].seen
    IN /\ [j \in 1..Len(c.testModules) |-> c.testModules[j].moduleId]
            = FirstSeenIds(RecordedSeq(n), {})
       /\ \A j \in 1..Len(c.testModules) :
            [t \in 1..Len(c.testModules[j].tests) |-> c.testModules[j].tests[t].name]
              = RecordedNames(n, c.testModules[j].moduleId)

\* Witness of C10: results of two modules recorded interleaved, then written.
W10_InterleavedModules ==
  \E k \in Writes :
    /\ saveCalls[k].seen = 3
    /\ Recorded(3) = {1, 2, 3}
    /\ calls[1].context.id = calls[3].context.id
    /\ calls[1].context.id # calls[2].context.id
    /\ calls[1].context.name # calls[3].context.name

\* The tests of a document, module after module.
TestsOf(content) == FlatMapTests(content.testModules)

\* C11: in every write, a test whose state is passed or skipped carries no
\* errors, whatever status and errors were passed to onStoryResult.
X11_ErrorsOnlyOnFailed ==
  \A k \in Writes :
    \A t \in 1..Len(TestsOf(Content(k))) :
      TestsOf(Content(k))[t].state \in {"passed", "skipped"}
        => "errors" \notin DOMAIN TestsOf(Content(k))[t]

\* C12: onStoryResult never throws, whatever the elements of the errors
\* argument are: every call returns and records a test.
X12_NeverThrows ==
  /\ \A i \in 1..Len(calls) : ~calls[i].threw
  /\ Len(FlatMapTests(TestModulesOf(collectedTests))) = Len(calls)

\* C13: the content handed to saveTest holds exactly the results recorded
\* before that onComplete; a result recorded while the write is in flight
\* changes neither that content nor what the storage holds for the write.
C13_SnapshotIsolation ==
  /\ [][\A k \in Writes :
          /\ k \in 1..Len(saveCalls')
          /\ saveCalls'[k].content = saveCalls[k].content]_vars
  /\ [](\A k \in Writes :
          \A c \in Contexts :
            Occurrences(Content(k), c.id, c.name)
              = RecordedOccurrences(saveCalls[k].seen, c.id, c.name))
  /\ [][\A k \in pending \ pending' :
          k \notin rejected' => store' = <<saveCalls[k].content>>]_vars
  /\ [](store # <<>> => \E k \in Writes \ (pending \cup rejected) : store = <<Content(k)>>)

\* Witness of C13: a result is recorded while a write is in flight.
W13_ResultDuringWrite ==
  \E k \in pending :
    /\ Cardinality(RecordedBefore(k)) > 0
    /\ \E i \in (saveCalls[k].seen + 1)..Len(calls) : ~calls[i].threw

\* C14: an onStoryResult call accumulates in one step: at every moment the
\* accumulation holds exactly the results of the calls that returned, each
\* once, the modules and the tests of a module in call order, also for calls
\* for the same moduleId and for calls made while a write is in flight.
C14_AccumulationAtomic ==
  LET n == Len(calls)
      ids == [j \in 1..Len(collectedTests) |-> collectedTests[j][1]]
  IN /\ Len(FlatMapTests(TestModulesOf(collectedTests))) = Cardinality(Recorded(n))
     /\ ids = FirstSeenIds(RecordedSeq(n), {})
     /\ \A j \in 1..Len(collectedTests) :
          [t \in 1..Len(collectedTests[j][2]) |-> collectedTests[j][2][t].name]
            = RecordedNames(n, collectedTests[j][1])

\* Witness of C14: two calls for one moduleId made while a write is in flight.
W14_SameModuleDuringWrite ==
  \E k \in pending :
    \E i, j \in (saveCalls[k].seen + 1)..Len(calls) :
      /\ i < j
      /\ ~calls[i].threw /\ ~calls[j].threw
      /\ calls[i].context.id = calls[j].context.id
      /\ Len(MapGet(collectedTests, calls[i].context.id)) >= 2

\* C15: when storage.saveTest fails during onComplete, the promise of that
\* onComplete rejects, the accumulation is left unchanged, and a later
\* onComplete writes the same content.
C15_WriteFailurePropagates ==
  /\ [](\A k \in rejected : k \in DOMAIN promises /\ promises[k] = "rejected")
  /\ [][rejected' # rejected => collectedTests' = collectedTests]_vars
  /\ [](\A k \in rejected :
          (k + 1 \in Writes /\ saveCalls[k + 1].seen = saveCalls[k].seen)
            => Content(k + 1) = Content(k))

\* Witness of C15: a failed write of a non-empty run, then a second onComplete.
W15_RetryAfterFailure ==
  /\ 1 \in rejected
  /\ promises[1] = "rejected"
  /\ 2 \in Writes
  /\ saveCalls[2].seen = saveCalls[1].seen
  /\ Content(1).testModules # <<>>

\* C16: determineReason returns passed, failed or nothing, never interrupted,
\* so no write issued by onComplete carries reason interrupted.
C16_ReducerNeverInterrupted ==
  /\ determineReason(TestModulesOf(collectedTests)) \in {"passed", "failed", Undefined}
  /\ \A k \in Writes :
       HasReason(Content(k)) => Content(k).reason \in {"passed", "failed"}

\* Witness of C16: a write of a run that holds only skipped tests, issued by
\* the exit handler.
W16_ExitWriteOfSkippedRun ==
  \E k \in Writes :
    /\ saveCalls[k].by = "exit"
    /\ RecordedBefore(k) # {}
    /\ \A i \in RecordedBefore(k) : calls[i].status = "skipped"
    /\ HasReason(Content(k))

\* The test that the k-th write holds for the i-th call (a call that returned
\* before the write): the tests of a module are in call order.
TestOfCall(k, i) ==
  LET id == calls[i].context.id
      pos == Cardinality({q \in RecordedBefore(k) : q <= i /\ calls[q].context.id = id})
      j == CHOOSE m \in 1..Len(Content(k).testModules) :
             Content(k).testModules[m].moduleId = id
  IN Content(k).testModules[j].tests[pos]

\* The calls before the k-th write that returned and were given errors.
CallsWithErrors(k) ==
  {i \in RecordedBefore(k) : calls[i].errors.given /\ Len(calls[i].errors.list) > 0}

\* Whether a raw error is an object whose message is a string.
HasStringMessage(raw) ==
  /\ raw.kind = "object"
  /\ "message" \in DOMAIN raw
  /\ raw.message \notin {Undefined, NumberValue}

\* C17: for a failed call given errors e1..en with string messages, the
\* persisted test has exactly n errors, errors[i] has the message and the
\* stack of ei, and the reason of the run is failed.
C17_ErrorsOneForOne ==
  \A k \in Writes :
    \A i \in CallsWithErrors(k) :
      LET raw == calls[i].errors.list
          t == TestOfCall(k, i)
      IN (calls[i].status = "failed" /\ \A e \in 1..Len(raw) : HasStringMessage(raw[e])) =>
           /\ t.state = "failed"
           /\ "errors" \in DOMAIN t
           /\ Len(t.errors) = Len(raw)
           /\ \A e \in 1..Len(raw) :
                /\ t.errors[e].message = raw[e].message
                /\ IF "stack" \in DOMAIN raw[e]
                     THEN "stack" \in DOMAIN t.errors[e] /\ t.errors[e].stack = raw[e].stack
                     ELSE "stack" \notin DOMAIN t.errors[e]
           /\ HasReason(Content(k))
           /\ Content(k).reason = "failed"

\* Witness of C17: a write holding the test of a failed call with two errors.
W17_TwoErrorsPersisted ==
  \E k \in Writes :
    \E i \in CallsWithErrors(k) :
      /\ Len(calls[i].errors.list) = 2
      /\ Len(TestOfCall(k, i).errors) = 2

\* C18: when an error passed to onStoryResult carries expected and actual
\* values, the persisted error carries the same expected and actual values.
X18_ExpectedActualPersisted ==
  \A k \in Writes :
    \A i \in CallsWithErrors(k) :
      \A e \in 1..Len(calls[i].errors.list) :
        LET raw == calls[i].errors.list[e]
            out == TestOfCall(k, i).errors[e]
        IN {"expected", "actual"} \subseteq DOMAIN raw =>
             /\ {"expected", "actual"} \subseteq DOMAIN out
             /\ out.expected = raw.expected
             /\ out.actual = raw.actual

\* C19: every error of every write has a message that is a string: the
\* message of the raw error when that is a string, else String(raw error).
C19_MessageAlwaysString ==
  \A k \in Writes :
    /\ \A t \in 1..Len(TestsOf(Content(k))) :
         "errors" \in DOMAIN TestsOf(Content(k))[t] =>
           \A e \in 1..Len(TestsOf(Content(k))[t].errors) :
             /\ "message" \in DOMAIN TestsOf(Content(k))[t].errors[e]
             /\ TestsOf(Content(k))[t].errors[e].message \notin {Undefined, NumberValue}
    /\ \A i \in CallsWithErrors(k) :
         \A e \in 1..Len(calls[i].errors.list) :
           LET raw == calls[i].errors.list[e]
           IN TestOfCall(k, i).errors[e].message =
                IF HasStringMessage(raw) THEN raw.message
                ELSE IF raw.kind = "string" THEN raw.value
                ELSE "[object Object]"

\* Witness of C19: a write holding the errors of an object whose message is
\* no string and of a primitive.
W19_NonStringMessagesPersisted ==
  \E k \in Writes :
    /\ \E i \in CallsWithErrors(k) : calls[i].errors.list = <<NumericMessage>>
    /\ \E i \in CallsWithErrors(k) : calls[i].errors.list = <<StringPrimitive>>

\* The stories that crashed (the exit handler runs after the last story, so
\* each of them precedes every write).
CrashedStories == {v \in 1..Len(visited) : visited[v].outcome = "crashed"}

\* C20: a story that crashes yields exactly one failed test in the output,
\* with a single error, and reason failed; it is never dropped.
X20_CrashSurfacesAsFailed ==
  \A k \in Writes :
    \A v \in CrashedStories :
      /\ HasReason(Content(k))
      /\ Content(k).reason = "failed"
      /\ \E t \in 1..Len(TestsOf(Content(k))) :
           /\ TestsOf(Content(k))[t].name = visited[v].context.name
           /\ TestsOf(Content(k))[t].state = "failed"
           /\ "errors" \in DOMAIN TestsOf(Content(k))[t]
           /\ Len(TestsOf(Content(k))[t].errors) = 1

\* The stories visited that have no play function.
RenderOnlyStories == {v \in 1..Len(visited) : ~visited[v].play}

\* The stories visited that have a play function.
PlayStories == {v \in 1..Len(visited) : visited[v].play}

\* C21: a story without a play function never appears as a test in a write
\* and never influences the reason: a write holds at most one test per visited
\* story with a play function, and a run of render-only stories is written as
\* an empty run without reason.
X21_RenderOnlyStoriesExcluded ==
  \A k \in Writes :
    /\ TestCount(Content(k).testModules) <= Cardinality(PlayStories)
    /\ PlayStories = {} => ~HasReason(Content(k))

\* C22: a write that fails while the exit handler forces completion is
\* swallowed: the promise of that onComplete does not reject.
X22_ExitWriteFailureSwallowed ==
  \A k \in rejected :
    saveCalls[k].by = "exit" => (k \in DOMAIN promises /\ promises[k] = "fulfilled")

\* The writes that have finished and after whose issue no result was recorded.
FinishedWrites ==
  {k \in Writes : k \notin pending /\ k \notin rejected /\ saveCalls[k].seen = Len(calls)}

\* C23: once the write of onComplete has finished, the accumulation holds no
\* module and no test.
X23_AccumulationDiscardedAfterWrite ==
  FinishedWrites # {} => collectedTests = <<>>

\* C24: the state of a persisted test is the status argument of its call for
\* passed, failed and skipped, and passed when the argument was omitted; no
\* test of any write has a state outside passed, failed, skipped.
C24_StateIsStatusArgument ==
  \A k \in Writes :
    /\ \A i \in RecordedBefore(k) :
         /\ calls[i].status \in {"passed", "failed", "skipped"} =>
              TestOfCall(k, i).state = calls[i].status
         /\ calls[i].status = Undefined => TestOfCall(k, i).state = "passed"
    /\ \A t \in 1..Len(TestsOf(Content(k))) :
         /\ "state" \in DOMAIN TestsOf(Content(k))[t]
         /\ TestsOf(Content(k))[t].state \in {"passed", "failed", "skipped"}

\* Witness of C24: a write holding the tests of a call without status, of a
\* failed call and of a skipped call.
W24_OmittedFailedSkippedPersisted ==
  \E k \in Writes :
    \E i, j, l \in RecordedBefore(k) :
      /\ calls[i].status = Undefined /\ TestOfCall(k, i).state = "passed"
      /\ calls[j].status = "failed" /\ TestOfCall(k, j).state = "failed"
      /\ calls[l].status = "skipped" /\ TestOfCall(k, l).state = "skipped"

\* The story files of the results recorded before the k-th write.
StoryFilesBefore(k) == {StoryFileOf(calls[i].context) : i \in RecordedBefore(k)}

\* C25: the results of stories of one story file are the tests of one module:
\* a write holds as many modules as there are story files among its results.
X25_OneModulePerStoryFile ==
  \A k \in Writes :
    Len(Content(k).testModules) = Cardinality(StoryFilesBefore(k))

\* C26: the persisted test of a recorded result has the name of the story
\* and the full name '<title> > <name>' of its context.
C26_NameAndFullName ==
  \A k \in Writes :
    \A i \in RecordedBefore(k) :
      /\ TestOfCall(k, i).name = calls[i].context.name
      /\ TestOfCall(k, i).fullName =
           calls[i].context.title \o " > " \o calls[i].context.name
      /\ calls[i].context = Primary => TestOfCall(k, i).fullName = "Button > Primary"
      /\ calls[i].context = CardDefault => TestOfCall(k, i).fullName = "Card > Default"

\* Witness of C26: a write holding 'Button > Primary' and 'Card > Default'.
W26_FullNamesPersisted ==
  \E k \in Writes :
    \E i, j \in RecordedBefore(k) :
      /\ calls[i].context = Primary
      /\ TestOfCall(k, i) = [name |-> "Primary", fullName |-> "Button > Primary",
                             state |-> "passed"]
      /\ calls[j].context = CardDefault
      /\ TestOfCall(k, j).fullName = "Card > Default"

\* The positions of the messages of type 'result' in the stream of the query.
ResultIndices == {i \in 1..Len(queryResult) : queryResult[i].type = "result"}

\* The position of the first message of type 'result' (there is one).
FirstResult == CHOOSE i \in ResultIndices : \A j \in ResultIndices : i <= j

\* The promise of ask has settled.
Settled == answer # Pending

NoResultMessage == "Claude Code SDK error: No result message received"

\* C27: ask takes the messages of the query in order and skips those that
\* are not of type 'result'; when the first 'result' message is a success,
\* ask resolves with its result field at that message, and no message after
\* it changes the outcome.
C27_ResolvesWithFirstResult ==
  /\ [](/\ cursor \in 0..Len(queryResult)
        /\ ~Settled => \A i \in 1..cursor : queryResult[i].type # "result"
        /\ (ResultIndices # {} /\ cursor >= FirstResult
               /\ queryResult[FirstResult].subtype = "success") =>
             /\ cursor = FirstResult
             /\ answer = Fulfilled(queryResult[FirstResult].result)
        /\ answer.state = "fulfilled" =>
             /\ ResultIndices # {}
             /\ cursor = FirstResult
             /\ answer.value = queryResult[FirstResult].result)
  /\ [][cursor' \in {cursor, cursor + 1}]_vars
  /\ [][Settled => (answer' = answer /\ cursor' = cursor)]_vars

\* Witness of C27: ask resolved at a successful result that follows a message
\* of another type and precedes a result with another outcome.
W27_ResolvedBeforeLaterResult ==
  /\ answer = Fulfilled("test result")
  /\ cursor = 2
  /\ queryResult[1] = OtherMessage
  /\ Len(queryResult) = 3
  /\ queryResult[3] \in {DefaultResult, MaxTurnsResult}

\* C28: when the first message of type 'result' has a subtype other than
\* 'success', ask rejects at that message with an error naming the subtype,
\* whatever follows it in the stream.
C28_RejectsWithSubtype ==
  (ResultIndices # {} /\ cursor >= FirstResult
     /\ queryResult[FirstResult].subtype # "success") =>
    /\ cursor = FirstResult
    /\ answer.state = "rejected"
    /\ answer.message = "Claude Code SDK error: " \o queryResult[FirstResult].subtype
    /\ queryResult[FirstResult] = MaxTurnsResult =>
         answer.message = "Claude Code SDK error: error_max_turns"

\* Witness of C28: ask rejected with error_max_turns although a successful
\* result follows in the stream.
W28_RejectedBeforeSuccess ==
  /\ answer = Rejected("Claude Code SDK error: error_max_turns")
  /\ \E j \in ResultIndices : j > cursor /\ queryResult[j] = SuccessResult

\* C29: ask rejects with 'No result message received' exactly when the stream
\* has ended without a message of type 'result', and ask is fulfilled only
\* when a successful result message was taken.
C29_NoResultExactlyAtEnd ==
  /\ (answer.state = "rejected" /\ answer.message = NoResultMessage) <=>
       (Settled /\ ResultIndices = {} /\ cursor = Len(queryResult))
  /\ (Settled /\ ResultIndices = {}) => cursor = Len(queryResult)
  /\ answer.state = "fulfilled" =>
       \E i \in 1..cursor :
         /\ queryResult[i].type = "result"
         /\ queryResult[i].subtype = "success"

\* Witness of C29: ask rejected after a stream of messages of other types,
\* one of them carrying a result field.
W29_StreamWithoutResult ==
  /\ answer = Rejected(NoResultMessage)
  /\ Len(queryResult) >= 2
  /\ \E i \in 1..Len(queryResult) : queryResult[i] = OtherMessage

\* The API call itself failed: there is no response to extract from.
ApiFailed == answer = Rejected("API error")

\* The first content block of the response carries a non-empty text.
FirstBlockHasText ==
  /\ Len(response.content) > 0
  /\ "text" \in DOMAIN response.content[1]
  /\ response.content[1].text \notin {"", Undefined}

\* C30: when the API has responded and the first content block carries a
\* non-empty text, ask resolves with that text; whenever ask resolves, the
\* value is the text of the first block, whatever the later blocks hold.
C30_FirstBlockText ==
  /\ (Settled /\ ~ApiFailed /\ FirstBlockHasText) =>
       answer = Fulfilled(response.content[1].text)
  /\ answer.state = "fulfilled" =>
       (FirstBlockHasText /\ answer.value = response.content[1].text)

\* Witness of C30: ask resolved with the text of the first block of a
\* response whose later blocks carry another text and no text.
W30_FirstOfSeveralBlocks ==
  /\ answer = Fulfilled("Model response text")
  /\ Len(response.content) = 3
  /\ response.content[2] = SecondTextBlock
  /\ response.content[3] = ImageBlock

\* C31: ask of AnthropicApi never resolves with an empty or undefined string:
\* it rejects with the API error when the call fails, with 'No content in
\* response' when the content array is empty, and with 'Response content does
\* not contain text' when the first block has no non-empty text.
C31_RejectsWithoutText ==
  /\ answer.state = "fulfilled" => answer.value \notin {"", Undefined}
  /\ (Settled /\ ~FirstBlockHasText) => answer.state = "rejected"
  /\ (Settled /\ ~ApiFailed /\ Len(response.content) = 0) =>
       answer = Rejected("No content in response")
  /\ (Settled /\ ~ApiFailed /\ Len(response.content) > 0 /\ ~FirstBlockHasText) =>
       answer = Rejected("Response content does not contain text")
  /\ answer.state = "rejected" =>
       answer.message \in {"API error", "No content in response",
                           "Response content does not contain text"}

\* Witness of C31: ask rejected for a response whose first block has an empty
\* text although a later block carries text.
W31_EmptyFirstTextRejected ==
  /\ answer = Rejected("Response content does not contain text")
  /\ Len(response.content) >= 2
  /\ response.content[1] = EmptyTextBlock
  /\ response.content[2] = TextBlock

\* C32: whenever the validation client of the effective config is neither
\* 'api' nor 'cli', getModelClient returns the SDK client.
X32_SdkIsTheDefault ==
  (modelClient # <<>> /\ ActualConfig.validationClient \notin {"api", "cli"}) =>
    modelClient[1].class = "ClaudeAgentSdk"

X34_EmptyRunReasonPassed ==
  \A k \in Writes :
    RecordedBefore(k) = {} =>
      Content(k) = [testModules |-> <<>>, unhandledErrors |-> <<>>, reason |-> "passed"]

\* C35: getModelClient returns a ClaudeAgentSdk for 'sdk', an AnthropicApi
\* for 'api' and a ClaudeCli for 'cli', constructed from the effective config:
\* the config passed in, or the fresh Config when none is passed.
C35_ClientPerValidationClient ==
  modelClient # <<>> =>
    /\ Len(modelClient) = 1
    /\ config.given => modelClient[1].config = config.value
    /\ ~config.given => modelClient[1].config = freshConfig
    /\ modelClient[1].config.validationClient = "sdk" =>
         modelClient[1].class = "ClaudeAgentSdk"
    /\ modelClient[1].config.validationClient = "api" =>
         modelClient[1].class = "AnthropicApi"
    /\ modelClient[1].config.validationClient = "cli" =>
         modelClient[1].class = "ClaudeCli"

\* Witness of C35: an AnthropicApi made from the fresh Config although the
\* provider was called without config.
W35_ApiFromFreshConfig ==
  /\ ~config.given
  /\ freshConfig.validationClient = "api"
  /\ modelClient = <<NewClient("AnthropicApi", freshConfig)>>

\* C36: a persisted error carries expected or actual only if the error passed
\* to onStoryResult supplied it, and an error given with message and stack
\* only is persisted without expected and actual.
C36_ExpectedActualNotFabricated ==
  \A k \in Writes :
    \A i \in CallsWithErrors(k) :
      \A e \in 1..Len(calls[i].errors.list) :
        LET raw == calls[i].errors.list[e]
            out == TestOfCall(k, i).errors[e]
        IN /\ "expected" \in DOMAIN out =>
                ("expected" \in DOMAIN raw /\ out.expected = raw.expected)
           /\ "actual" \in DOMAIN out =>
                ("actual" \in DOMAIN raw /\ out.actual = raw.actual)
           /\ DOMAIN raw \subseteq {"kind", "message", "stack"} =>
                DOMAIN out \subseteq {"message", "stack"}

\* Witness of C36: a write holding two errors given with message and stack
\* only, persisted with exactly these two properties.
W36_MessageAndStackOnly ==
  \E k \in Writes :
    \E i \in CallsWithErrors(k) :
      /\ calls[i].errors.list = <<AssertionError, TimeoutError>>
      /\ \A e \in 1..2 : DOMAIN TestOfCall(k, i).errors[e] = {"message", "stack"}

\* What onStoryResult reads of a context: id, title and name.
Essential(context) ==
  [id |-> context.id, title |-> context.title, name |-> context.name]

\* A sequence of calls with every context cut down to id, title and name.
WithEssentialContexts(callSeq) ==
  [i \in 1..Len(callSeq) |-> [callSeq[i] EXCEPT !.context = Essential(@)]]

RECURSIVE Replay(_, _)
\* The accumulation of a fresh reporter instance fed a sequence of calls.
Replay(callSeq, map) ==
  IF callSeq = <<>> THEN map
  ELSE LET c == Head(callSeq)
       IN Replay(Tail(callSeq),
                 IF onStoryResultThrows(c.errors) THEN map
                 ELSE Accumulate(map, c.context.id,
                                 StoryTestOf(c.context, c.status, c.errors)))

\* The document a fresh reporter instance writes after the first n calls.
ReplayedContent(callSeq) == JsonStringify(OutputOf(Replay(callSeq, <<>>)))

\* C37: the output depends on a context only through id, title and name: a
\* write equals the write of a run given the same status and errors arguments
\* with contexts that carry nothing else, and the state of a test is the
\* status argument (passed when omitted), whatever status the context holds.
C37_OnlyIdTitleName ==
  \A k \in Writes :
    /\ Content(k) =
         ReplayedContent(WithEssentialContexts(SubSeq(calls, 1, saveCalls[k].seen)))
    /\ \A i \in RecordedBefore(k) :
         TestOfCall(k, i).state =
           IF calls[i].status = Undefined THEN "passed" ELSE calls[i].status

\* Witness of C37: a write holding a passed test recorded without status
\* argument for a context that carries status failed and errors.
W37_ContextStatusIgnored ==
  \E k \in Writes :
    \E i \in RecordedBefore(k) :
      /\ calls[i].context = PrimaryFailedInside
      /\ calls[i].status = Undefined
      /\ TestOfCall(k, i) = [name |-> "Primary", fullName |-> "Button > Primary",
                             state |-> "passed"]

====
